---- MODULE Spec2Model ----
(***************************************************************************)
(* Gas estimation for ERC-4337 (EntryPoint 0.7) user operations: the       *)
(* overhead model, the worst-case canonicalizer, the chain dispatcher, the *)
(* Optimism and Arbitrum surcharge calculators, the post-simulation limit  *)
(* deriver and the viem error normalizer.                                  *)
(*                                                                         *)
(* Byte strings (viem Hex values) are sequences over 0..255.  Unbounded    *)
(* integers (bigint) that the model computes with are Int; the 248-bit     *)
(* placeholders are kept as big-endian byte strings.                       *)
(***************************************************************************)
EXTENDS Integers, Sequences, FiniteSets, TLC

\* ------------------------------------------------------------------ bounds
MaxLen == 2          \* longest initCode / callData / paymasterData / signature
MaxBundleSize == 2   \* largest bundleSize override
MaxFee == 2          \* largest base fee / price component returned by the chain
MaxL1Fee == 5        \* largest L1 fee / L1 gas estimate returned by an oracle
MaxStaticFee == 1    \* largest staticFee of a direct surcharge-calculator call
MaxSmallGas == 3     \* small simulation figures (preOpGas, preVerificationGas, paid)

\* an absent optional value (null / undefined) is the empty sequence, a present
\* one the one-element sequence
Absent == <<>>
Some(x) == <<x>>

\* ------------------------------------------------------------- byte strings
Fill(n, b) == [i \in 1..n |-> b]

PadLeft(bs, n) == Fill(n - Len(bs), 0) \o bs

PadRight32(bs) == bs \o Fill((32 - (Len(bs) % 32)) % 32, 0)

RECURSIVE NatToBytes(_)
NatToBytes(n) == IF n = 0 THEN <<>> ELSE NatToBytes(n \div 256) \o <<n % 256>>

\* JavaScript's .length of a 0x-prefixed hex string holding the bytes bs
StrLength(bs) == 2 + 2 * Len(bs)

\* the sum of s[lo..hi], by halves
RECURSIVE SumRange(_, _, _)
SumRange(s, lo, hi) ==
    IF lo > hi THEN 0
    ELSE IF lo = hi THEN s[lo]
    ELSE LET mid == (lo + hi) \div 2
         IN  SumRange(s, lo, mid) + SumRange(s, mid + 1, hi)

SeqSum(s) == SumRange(s, 1, Len(s))

\* ------------------------------------------------------------ overhead model
DefaultGasOverheads ==
    [fixed |-> 21000, perUserOp |-> 18300, perUserOpWord |-> 4, zeroByte |-> 4,
     nonZeroByte |-> 16, bundleSize |-> 1, sigSize |-> 65]

\* { ...DefaultGasOverheads, ...(overheads ?? {}) }
MergeOverheads(overheads) ==
    [k \in DOMAIN DefaultGasOverheads |->
        IF k \in DOMAIN overheads
        THEN overheads[k] ELSE DefaultGasOverheads[k]]

\* ./userop toPackedUserOperation: gas-limit pairs concatenated into 32-byte
\* words, paymaster fields concatenated into paymasterAndData
toPackedUserOperation(op) ==
    [sender |-> op.sender,
     nonce |-> NatToBytes(op.nonce),
     initCode |-> op.initCode,
     callData |-> op.callData,
     accountGasLimits |-> PadLeft(NatToBytes(op.verificationGasLimit), 16)
                          \o PadLeft(NatToBytes(op.callGasLimit), 16),
     preVerificationGas |-> NatToBytes(op.preVerificationGas),
     gasFees |-> PadLeft(NatToBytes(op.maxPriorityFeePerGas), 16)
                 \o PadLeft(NatToBytes(op.maxFeePerGas), 16),
     paymasterAndData |->
        IF op.paymaster = Absent THEN <<>>
        ELSE op.paymaster
             \o PadLeft(NatToBytes(op.paymasterVerificationGasLimit), 16)
             \o PadLeft(NatToBytes(op.paymasterPostOpGasLimit), 16)
             \o op.paymasterData,
     signature |-> op.signature]

\* BigInt("0xFF..FF") with 62 hex digits: 31 bytes of 0xFF
PlaceholderUint == Fill(31, 255)

\* the 0xFF filling sized by the hex STRING's length, as the code does
packedUserOperationToRandomDataUserOp(p) ==
    [sender |-> p.sender,
     nonce |-> PlaceholderUint,
     initCode |-> p.initCode,
     callData |-> p.callData,
     accountGasLimits |-> Fill(32, 255),
     preVerificationGas |-> PlaceholderUint,
     gasFees |-> Fill(32, 255),
     paymasterAndData |-> Fill(StrLength(p.paymasterAndData), 255),
     signature |-> Fill(StrLength(p.signature), 255)]

\* ABI encoding of one static 32-byte slot (address, uint256, bytes32)
EncWord(bs) == PadLeft(bs, 32)

\* ABI encoding of the tail of a dynamic `bytes` value
EncBytesTail(bs) == EncWord(NatToBytes(Len(bs))) \o PadRight32(bs)

\* encodeAbiParameters over (address, uint256, bytes, bytes, bytes32, uint256,
\* bytes32, bytes, bytes): nine head slots, then the four dynamic tails
encodeAbiParameters(v) ==
    LET t1 == EncBytesTail(v[3])
        t2 == EncBytesTail(v[4])
        t3 == EncBytesTail(v[8])
        t4 == EncBytesTail(v[9])
        o1 == 9 * 32
        o2 == o1 + Len(t1)
        o3 == o2 + Len(t2)
        o4 == o3 + Len(t3)
    IN  EncWord(v[1]) \o EncWord(v[2]) \o EncWord(NatToBytes(o1))
        \o EncWord(NatToBytes(o2)) \o EncWord(v[5]) \o EncWord(v[6])
        \o EncWord(v[7]) \o EncWord(NatToBytes(o3)) \o EncWord(NatToBytes(o4))
        \o t1 \o t2 \o t3 \o t4

packUserOp(op) ==
    LET packedUserOperation == toPackedUserOperation(op)
        randomDataUserOp == packedUserOperationToRandomDataUserOp(packedUserOperation)
    IN  encodeAbiParameters(<<randomDataUserOp.sender,
                              randomDataUserOp.nonce,
                              packedUserOperation.initCode,
                              packedUserOperation.callData,
                              randomDataUserOp.accountGasLimits,
                              randomDataUserOp.preVerificationGas,
                              randomDataUserOp.gasFees,
                              randomDataUserOp.paymasterAndData,
                              randomDataUserOp.signature>>)

\* Math.round of the rational num/den (den > 0): the nearest integer, ties up
MathRound(num, den) == (2 * num + den) \div (2 * den)

\* an element written into a Uint8Array is reduced modulo 256
ToUint8(x) == x % 256

\* lengthInWord = (packed.length + 31) / 32 is a JavaScript number division:
\* the quotient is kept as the fraction (len + 31) / 32
calcDefaultPreVerificationGas(userOperation, overheads) ==
    LET ov == MergeOverheads(overheads)
        uop == [userOperation EXCEPT !.signature =
                    IF @ = <<>> THEN Fill(ov.sigSize, 1) ELSE @]
        packed == packUserOp(uop)
        lengthInWordNum == Len(packed) + 31
        callDataCost ==
            SeqSum([i \in 1..Len(packed) |->
                ToUint8(IF packed[i] = 0 THEN ov.zeroByte ELSE ov.nonZeroByte)])
        den == 32 * ov.bundleSize
        num == den * (callDataCost + ov.perUserOp) + 32 * ov.fixed
               + ov.bundleSize * ov.perUserOpWord * lengthInWordNum
    IN  MathRound(num, den)

\* ------------------------------------------------------------ chain identifiers
chain59140 == 59140
chain59142 == 59142
optimism == 10
optimismSepolia == 11155420
optimismGoerli == 420
base == 8453
baseGoerli == 84531
baseSepolia == 84532
opBNB == 204
opBNBTestnet == 5611
lyra == 957
arbitrum == 42161

\* Dispatch with chain 59142 left out of the doubling test
Dispatch_Missing59142(chainId) ==
    IF chainId = chain59140 THEN "double"
    ELSE IF chainId \in {optimism, optimismSepolia, optimismGoerli, base, baseGoerli,
                         baseSepolia, opBNB, opBNBTestnet, lyra}
         THEN "optimism"
    ELSE IF chainId = arbitrum THEN "arbitrum"
    ELSE "default"

\* Dispatch with the Arbitrum test placed in the Optimism-stack list
Dispatch_ArbitrumAsOptimism(chainId) ==
    IF chainId = chain59140 \/ chainId = chain59142 THEN "double"
    ELSE IF chainId \in {optimism, optimismSepolia, optimismGoerli, base, baseGoerli,
                         baseSepolia, opBNB, opBNBTestnet, lyra, arbitrum}
         THEN "optimism"
    ELSE "default"

\* the if / else-if chain of calcPreVerificationGas
Dispatch(chainId) ==
    IF chainId = chain59140 \/ chainId = chain59142 THEN "double"
    ELSE IF \/ chainId = optimism
            \/ chainId = optimismSepolia
            \/ chainId = optimismGoerli
            \/ chainId = base
            \/ chainId = baseGoerli
            \/ chainId = baseSepolia
            \/ chainId = opBNB
            \/ chainId = opBNBTestnet
            \/ chainId = lyra
         THEN "optimism"
    ELSE IF chainId = arbitrum THEN "arbitrum"
    ELSE "default"

\* ------------------------------------------------------------------ outcomes
Pending == [kind |-> "pending", val |-> <<>>, err |-> "none", from |-> "none"]
Returned(v) == [kind |-> "value", val |-> v, err |-> "none", from |-> "none"]
Thrown(e, f) == [kind |-> "error", val |-> <<>>, err |-> e, from |-> f]

\* a rejected network call: the rejection propagates out of the async function
Rejected(call) == Thrown("Rejected", call)

\* the missing base fee reported as the block read's own failure
NoBaseFeeError_AsRejection == Thrown("Rejected", "getBlock")

\* throw new RpcError("block does not have baseFeePerGas")
NoBaseFeeError == Thrown("RpcError: block does not have baseFeePerGas", "none")

\* bigint division by 0n
DivisionByZero == Thrown("RangeError: Division by zero", "none")

\* bigint division (truncation toward zero), for a divisor > 0
BigIntDiv(a, b) == IF a >= 0 THEN a \div b ELSE -((-a) \div b)

\* ------------------------------------------------- surcharge calculators (pure part)
\* OptimismResult with the comparison of l2price flipped (the larger price)
OptimismResult_MaxPrice(staticFee, l1Fee, l2MaxFee, baseFeePerGas, maxPriorityFeePerGas) ==
    LET l2PriorityFee == baseFeePerGas + maxPriorityFeePerGas
        l2price == IF l2MaxFee > l2PriorityFee THEN l2MaxFee ELSE l2PriorityFee
    IN  IF l2price = 0 THEN Thrown("RangeError: Division by zero", "none")
        ELSE Returned(<<staticFee + l1Fee \div l2price>>)

\* lines 393-399: l2price and the final sum
OptimismResult(staticFee, l1Fee, l2MaxFee, baseFeePerGas, maxPriorityFeePerGas) ==
    LET l2PriorityFee == baseFeePerGas + maxPriorityFeePerGas
        l2price == IF l2MaxFee < l2PriorityFee THEN l2MaxFee ELSE l2PriorityFee
    IN  IF l2price = 0 THEN DivisionByZero
        ELSE Returned(<<staticFee + BigIntDiv(l1Fee, l2price)>>)

\* ArbitrumResult reading the tuple's second element
ArbitrumResult_SecondElement(staticFee, result) == Returned(<<result[2] + staticFee>>)

\* line 492
ArbitrumResult(staticFee, result) == Returned(<<result[1] + staticFee>>)

\* ------------------------------------------------------- limit deriver (pure part)
verificationGasLimitOf(preOpGas, preVerificationGas) ==
    BigIntDiv((preOpGas - preVerificationGas) * 3, 2)

\* lines 246-249
GasPriceWithBlock(maxFeePerGas, maxPriorityFeePerGas, blockBaseFee) ==
    LET b == IF blockBaseFee = Absent THEN 0 ELSE blockBaseFee[1]
    IN  IF maxFeePerGas < b + maxPriorityFeePerGas
        THEN maxFeePerGas ELSE maxPriorityFeePerGas + b

\* LimitResult without the 9000 lower bound
LimitResult_NoFloor(verificationGasLimit, preOpGas, paid, gasPrice, chainId) ==
    IF gasPrice = 0 THEN Thrown("RangeError: Division by zero", "none")
    ELSE LET calculatedCallGasLimit == paid \div gasPrice - preOpGas + 21000 + 50000
         IN  IF chainId = baseGoerli \/ chainId = baseSepolia \/ chainId = base
             THEN Returned(<<verificationGasLimit,
                             BigIntDiv(110 * calculatedCallGasLimit, 100)>>)
             ELSE Returned(<<verificationGasLimit, calculatedCallGasLimit>>)

\* lines 251-268
LimitResult(verificationGasLimit, preOpGas, paid, gasPrice, chainId) ==
    IF gasPrice = 0 THEN DivisionByZero
    ELSE LET calculatedCallGasLimit ==
                 BigIntDiv(paid, gasPrice) - preOpGas + 21000 + 50000
             callGasLimit ==
                 IF calculatedCallGasLimit > 9000 THEN calculatedCallGasLimit ELSE 9000
         IN  IF chainId = baseGoerli \/ chainId = baseSepolia \/ chainId = base
             THEN Returned(<<verificationGasLimit, BigIntDiv(110 * callGasLimit, 100)>>)
             ELSE Returned(<<verificationGasLimit, callGasLimit>>)

\* ------------------------------------------------------------ error normalizer
WrapperKinds == {"ContractFunctionExecutionError", "TransactionExecutionError"}

\* parseViemError without the test of the outer error's class
parseViemError_NoWrapperTest(err) ==
    IF err.cause \in {"NonceTooLowError", "FeeCapTooLowError", "InsufficientFundsError",
                      "IntrinsicGasTooLowError", "ContractFunctionRevertedError",
                      "EstimateGasExecutionError"}
    THEN err.cause ELSE "undefined"

\* an error value: its class and the class of its cause; the result is the class
\* of the returned cause object, or "undefined"
parseViemError(err) ==
    IF err.kind = "ContractFunctionExecutionError"
       \/ err.kind = "TransactionExecutionError"
    THEN IF err.cause = "NonceTooLowError" THEN err.cause
         ELSE IF err.cause = "FeeCapTooLowError" THEN err.cause
         ELSE IF err.cause = "InsufficientFundsError" THEN err.cause
         ELSE IF err.cause = "IntrinsicGasTooLowError" THEN err.cause
         ELSE IF err.cause = "ContractFunctionRevertedError" THEN err.cause
         ELSE IF err.cause = "EstimateGasExecutionError" THEN err.cause
         ELSE "undefined"
    ELSE "undefined"

\* ------------------------------------------------------------------- inputs
SenderA == [i \in 1..20 |-> IF i % 4 = 0 THEN 0 ELSE 16 + i]
SenderB == Fill(20, 238)
PaymasterA == [i \in 1..20 |-> IF i % 5 = 0 THEN 0 ELSE 32 + i]

\* every byte string over {0x00, 0xAB} of at most n bytes
ByteStrings(n) == UNION {[1..k -> {0, 171}] : k \in 0..n}

BaseOp ==
    [sender |-> SenderA, nonce |-> 1, initCode |-> <<>>, callData |-> <<>>,
     callGasLimit |-> 0, verificationGasLimit |-> 0, preVerificationGas |-> 0,
     maxFeePerGas |-> 0, maxPriorityFeePerGas |-> 0,
     paymaster |-> Absent, paymasterVerificationGasLimit |-> 0,
     paymasterPostOpGasLimit |-> 0, paymasterData |-> <<>>, signature |-> <<>>]

Ops ==
    { [BaseOp EXCEPT !.sender = s, !.initCode = ic, !.callData = cd,
                     !.paymaster = pm[1], !.paymasterData = pm[2],
                     !.signature = sg] :
        s \in {SenderA, SenderB},
        ic \in {Fill(k, 171) : k \in 0..MaxLen},
        cd \in ByteStrings(MaxLen),
        pm \in {<<Absent, <<>> >>} \cup {<<PaymasterA, Fill(k, 0)>> : k \in 0..MaxLen},
        sg \in {Fill(k, 0) : k \in 0..MaxLen} }

\* the operations of the network-facing runs
NetOps == {o \in Ops : /\ o.sender = SenderA /\ o.initCode = <<>>
                       /\ Len(o.callData) <= 1 /\ o.paymaster = Absent
                       /\ o.signature = <<>>}

NoOverheads == [k \in {} |-> 0]

OverheadChoices ==
    {NoOverheads, [perUserOpWord |-> 0], [zeroByte |-> 1, nonZeroByte |-> 300],
     [sigSize |-> 1], [fixed |-> 21001, perUserOpWord |-> 16]}
    \cup {[bundleSize |-> b] : b \in 1..MaxBundleSize}

NetOverheads == {NoOverheads, [perUserOpWord |-> 0]}

KnownChainIds ==
    {chain59140, chain59142, optimism, optimismSepolia, optimismGoerli, base,
     baseGoerli, baseSepolia, opBNB, opBNBTestnet, lyra, arbitrum}

ChainIds == KnownChainIds \cup {0, 1, 42170}

\* getBlock(): a rejection, or a block whose baseFeePerGas is a bigint or null
BlockResponses ==
    {[ok |-> FALSE, baseFeePerGas |-> Absent], [ok |-> TRUE, baseFeePerGas |-> Absent]}
    \cup {[ok |-> TRUE, baseFeePerGas |-> Some(b)] : b \in 0..MaxFee}

\* simulate.getL1Fee(): a rejection, or the fee
L1FeeResponses ==
    {[ok |-> FALSE, result |-> 0]} \cup {[ok |-> TRUE, result |-> f] : f \in 0..MaxL1Fee}

\* getGasPrice(): a rejection, or a price sample
GasPriceResponses ==
    {[ok |-> FALSE, maxFeePerGas |-> 0, maxPriorityFeePerGas |-> 0]}
    \cup {[ok |-> TRUE, maxFeePerGas |-> a, maxPriorityFeePerGas |-> c] :
            a \in 0..MaxFee, c \in 0..MaxFee}

\* simulate.gasEstimateL1Component(): a rejection, or the 3-tuple
ArbitrumResponses ==
    {[ok |-> FALSE, result |-> <<0, 0, 0>>]}
    \cup {[ok |-> TRUE, result |-> <<x, b, l>>] :
            x \in 0..MaxL1Fee, b \in 0..1, l \in 0..1}

SimGasValues == 0..MaxSmallGas
FeeValues == (0..MaxFee) \cup {100}

ErrorKinds ==
    WrapperKinds \cup
    {"NonceTooLowError", "FeeCapTooLowError", "InsufficientFundsError",
     "IntrinsicGasTooLowError", "ContractFunctionRevertedError",
     "EstimateGasExecutionError", "ExecutionRevertedError", "HttpRequestError",
     "Error", "string"}

ErrValues == [kind : ErrorKinds, cause : ErrorKinds \cup {"undefined"}]

\* -------------------------------------------------------------------- state
VARIABLES
    entry,        \* the exported function that was called ("idle" before)
    fn,           \* the function now executing
    pc,           \* "idle", the await the run is suspended at, or "done"
    op,           \* userOperation (packed operation for the canonicalizer)
    overheads,    \* overheads argument
    chainId,      \* chainId argument
    sim,          \* executionResult argument
    errIn,        \* err argument of parseViemError
    branch,       \* the branch calcPreVerificationGas took
    staticFee,    \* staticFee argument of a surcharge calculator
    netlog,       \* the network calls issued, in order
    latestBlock,  \* response of getBlock
    l1Fee,        \* response of getL1Fee
    gasPrice,     \* response of getGasPrice
    arbResult,    \* response of gasEstimateL1Component
    outcome       \* pending, the returned value, or the thrown error

vars == <<entry, fn, pc, op, overheads, chainId, sim, errIn, branch, staticFee,
          netlog, latestBlock, l1Fee, gasPrice, arbResult, outcome>>

Init ==
    /\ entry = "idle" /\ fn = "idle" /\ pc = "idle"
    /\ op = Absent /\ overheads = Absent /\ chainId = Absent /\ sim = Absent
    /\ errIn = Absent /\ branch = "none" /\ staticFee = Absent
    /\ netlog = <<>> /\ latestBlock = Absent /\ l1Fee = Absent
    /\ gasPrice = Absent /\ arbResult = Absent
    /\ outcome = Pending

\* a synchronous return or throw
Finish(o) == pc' = "done" /\ outcome' = o

\* issue a network call and suspend on it
Await(call) ==
    /\ netlog' = Append(netlog, call)
    /\ pc' = call
    /\ outcome' = outcome

\* ---------------------------------------------------------------- pure calls
CallCalcDefaultPreVerificationGas ==
    /\ pc = "idle"
    /\ \E o \in Ops, ov \in OverheadChoices :
        /\ op' = o /\ overheads' = ov
        /\ Finish(Returned(<<calcDefaultPreVerificationGas(o, ov)>>))
    /\ entry' = "calcDefaultPreVerificationGas" /\ fn' = entry'
    /\ UNCHANGED <<chainId, sim, errIn, branch, staticFee, netlog, latestBlock,
                   l1Fee, gasPrice, arbResult>>

CallPackedUserOperationToRandomDataUserOp ==
    /\ pc = "idle"
    /\ \E o \in Ops :
        /\ op' = toPackedUserOperation(o)
        /\ Finish(Returned(packedUserOperationToRandomDataUserOp(op')))
    /\ entry' = "packedUserOperationToRandomDataUserOp" /\ fn' = entry'
    /\ UNCHANGED <<overheads, chainId, sim, errIn, branch, staticFee, netlog,
                   latestBlock, l1Fee, gasPrice, arbResult>>

CallParseViemError ==
    /\ pc = "idle"
    /\ \E e \in ErrValues :
        /\ errIn' = e
        /\ Finish(Returned(parseViemError(e)))
    /\ entry' = "parseViemError" /\ fn' = entry'
    /\ UNCHANGED <<op, overheads, chainId, sim, branch, staticFee, netlog,
                   latestBlock, l1Fee, gasPrice, arbResult>>

\* --------------------------------------------------- surcharge calculators
\* lines 343-355: build the synthetic transaction, then await getBlock()
EnterOptimism(sf) ==
    /\ fn' = "calcOptimismPreVerificationGas"
    /\ staticFee' = sf
    /\ Await("getBlock")

\* lines 450-486: build the synthetic transaction, then await the precompile
EnterArbitrum(sf) ==
    /\ fn' = "calcArbitrumPreVerificationGas"
    /\ staticFee' = sf
    /\ Await("gasEstimateL1Component")

CallCalcPreVerificationGas ==
    /\ pc = "idle"
    /\ entry' = "calcPreVerificationGas"
    /\ \E o \in NetOps, ov \in NetOverheads, c \in ChainIds :
        LET preVerificationGas == calcDefaultPreVerificationGas(o, ov)
            br == Dispatch(c)
        IN  /\ op' = o /\ overheads' = ov /\ chainId' = c /\ branch' = br
            /\ CASE br = "double" ->
                       /\ fn' = entry' /\ staticFee' = staticFee /\ netlog' = netlog
                       /\ Finish(Returned(<<preVerificationGas * 2>>))
                 [] br = "optimism" -> EnterOptimism(preVerificationGas)
                 [] br = "arbitrum" -> EnterArbitrum(preVerificationGas)
                 [] OTHER ->
                       /\ fn' = entry' /\ staticFee' = staticFee /\ netlog' = netlog
                       /\ Finish(Returned(<<preVerificationGas>>))
    /\ UNCHANGED <<sim, errIn, latestBlock, l1Fee, gasPrice, arbResult>>

CallCalcOptimismPreVerificationGas ==
    /\ pc = "idle"
    /\ entry' = "calcOptimismPreVerificationGas"
    /\ \E o \in NetOps, sf \in 0..MaxStaticFee :
        /\ op' = o
        /\ EnterOptimism(sf)
    /\ UNCHANGED <<overheads, chainId, sim, errIn, branch, latestBlock, l1Fee,
                   gasPrice, arbResult>>

CallCalcArbitrumPreVerificationGas ==
    /\ pc = "idle"
    /\ entry' = "calcArbitrumPreVerificationGas"
    /\ \E o \in NetOps, sf \in 0..MaxStaticFee :
        /\ op' = o
        /\ EnterArbitrum(sf)
    /\ UNCHANGED <<overheads, chainId, sim, errIn, branch, latestBlock, l1Fee,
                   gasPrice, arbResult>>

\* lines 355-384: the block arrives; reject a block without base fee, else
\* call the oracle
OptGetBlockReturns ==
    /\ fn = "calcOptimismPreVerificationGas" /\ pc = "getBlock"
    /\ \E r \in BlockResponses :
        /\ latestBlock' = r
        /\ IF ~r.ok THEN Finish(Rejected("getBlock")) /\ netlog' = netlog
           ELSE IF r.baseFeePerGas = Absent
                THEN Finish(NoBaseFeeError) /\ netlog' = netlog
                ELSE Await("getL1Fee")
    /\ UNCHANGED <<entry, fn, op, overheads, chainId, sim, errIn, branch,
                   staticFee, l1Fee, gasPrice, arbResult>>

\* OptGetL1FeeReturns retrying the oracle call once after a rejection
OptGetL1FeeReturns_Retry ==
    /\ fn = "calcOptimismPreVerificationGas" /\ pc = "getL1Fee"
    /\ \E r \in L1FeeResponses :
        /\ l1Fee' = r
        /\ IF ~r.ok
           THEN IF Len(netlog) < 3 THEN Await("getL1Fee")
                ELSE Finish(Rejected("getL1Fee")) /\ netlog' = netlog
           ELSE Await("getGasPrice")
    /\ UNCHANGED <<entry, fn, op, overheads, chainId, sim, errIn, branch,
                   staticFee, latestBlock, gasPrice, arbResult>>

\* lines 382-391: the L1 fee arrives; query the gas price
OptGetL1FeeReturns ==
    /\ fn = "calcOptimismPreVerificationGas" /\ pc = "getL1Fee"
    /\ \E r \in L1FeeResponses :
        /\ l1Fee' = r
        /\ IF ~r.ok THEN Finish(Rejected("getL1Fee")) /\ netlog' = netlog
           ELSE Await("getGasPrice")
    /\ UNCHANGED <<entry, fn, op, overheads, chainId, sim, errIn, branch,
                   staticFee, latestBlock, gasPrice, arbResult>>

\* lines 386-399: the price sample arrives; compute the result
OptGetGasPriceReturns ==
    /\ fn = "calcOptimismPreVerificationGas" /\ pc = "getGasPrice"
    /\ \E r \in GasPriceResponses :
        /\ gasPrice' = r
        /\ IF ~r.ok THEN Finish(Rejected("getGasPrice"))
           ELSE Finish(OptimismResult(staticFee, l1Fee.result, r.maxFeePerGas,
                                      latestBlock.baseFeePerGas[1],
                                      r.maxPriorityFeePerGas))
    /\ UNCHANGED <<entry, fn, op, overheads, chainId, sim, errIn, branch,
                   staticFee, netlog, latestBlock, l1Fee, arbResult>>

\* lines 486-492: the precompile's tuple arrives
ArbGasEstimateReturns ==
    /\ fn = "calcArbitrumPreVerificationGas" /\ pc = "gasEstimateL1Component"
    /\ \E r \in ArbitrumResponses :
        /\ arbResult' = r
        /\ IF ~r.ok THEN Finish(Rejected("gasEstimateL1Component"))
           ELSE Finish(ArbitrumResult(staticFee, r.result))
    /\ UNCHANGED <<entry, fn, op, overheads, chainId, sim, errIn, branch,
                   staticFee, netlog, latestBlock, l1Fee, gasPrice>>

\* ------------------------------------------------------------ limit deriver
LimitChainIds == {base, baseGoerli, baseSepolia, optimism, 1}

LimitFinish(blockBaseFeeKnown, blockBaseFee) ==
    LET o == op'
        gp == IF blockBaseFeeKnown
              THEN GasPriceWithBlock(o.maxFeePerGas, o.maxPriorityFeePerGas, blockBaseFee)
              ELSE o.maxFeePerGas
    IN  Finish(LimitResult(
                verificationGasLimitOf(sim'.preOpGas, o.preVerificationGas),
                sim'.preOpGas, sim'.paid, gp, chainId'))

\* lines 235-244: equal fees need no block; otherwise await getBlock()
CallCalcVerificationGasAndCallGasLimit ==
    /\ pc = "idle"
    /\ entry' = "calcVerificationGasAndCallGasLimit" /\ fn' = entry'
    /\ \E pre \in SimGasValues \cup {100000}, pvg \in SimGasValues \cup {40000},
          paid \in SimGasValues \cup {10000000},
          mf \in FeeValues, mp \in FeeValues, c \in LimitChainIds :
        /\ op' = [BaseOp EXCEPT !.preVerificationGas = pvg, !.maxFeePerGas = mf,
                                !.maxPriorityFeePerGas = mp]
        /\ sim' = [preOpGas |-> pre, paid |-> paid]
        /\ chainId' = c
        /\ IF mp = mf THEN LimitFinish(FALSE, Absent) /\ netlog' = netlog
           ELSE Await("getBlock")
    /\ UNCHANGED <<overheads, errIn, branch, staticFee, latestBlock, l1Fee,
                   gasPrice, arbResult>>

\* lines 244-268: the block arrives; an absent base fee counts as 0
LimGetBlockReturns ==
    /\ fn = "calcVerificationGasAndCallGasLimit" /\ pc = "getBlock"
    /\ UNCHANGED <<entry, fn, op, overheads, chainId, sim, errIn, branch,
                   staticFee, netlog, l1Fee, gasPrice, arbResult>>
    /\ \E r \in BlockResponses :
        /\ latestBlock' = r
        /\ IF ~r.ok THEN Finish(Rejected("getBlock"))
           ELSE LimitFinish(TRUE, r.baseFeePerGas)

Next ==
    \/ CallCalcDefaultPreVerificationGas
    \/ CallPackedUserOperationToRandomDataUserOp
    \/ CallParseViemError
    \/ CallCalcPreVerificationGas
    \/ CallCalcOptimismPreVerificationGas
    \/ CallCalcArbitrumPreVerificationGas
    \/ OptGetBlockReturns
    \/ OptGetL1FeeReturns
    \/ OptGetGasPriceReturns
    \/ ArbGasEstimateReturns
    \/ CallCalcVerificationGasAndCallGasLimit
    \/ LimGetBlockReturns

Spec == Init /\ [][Next]_vars

\* ------------------------------------------------------------------- claims
Min(a, b) == IF a < b THEN a ELSE b
Max(a, b) == IF a > b THEN a ELSE b

DoubleCostSet == {59140, 59142}
OptimismStackSet == {10, 11155420, 420, 8453, 84531, 84532, 204, 5611, 957}
ArbitrumSet == {42161}
BaseFamilySet == {8453, 84531, 84532}

\* C1: on a double-cost chain (59140, 59142) calcPreVerificationGas returns
\* exactly twice what calcDefaultPreVerificationGas returns for the same
\* operation and overrides, and issues no network call.
C1_DoubleCost ==
    (entry = "calcPreVerificationGas" /\ chainId \in DoubleCostSet) =>
        /\ pc = "done"
        /\ outcome = Returned(<<2 * calcDefaultPreVerificationGas(op, overheads)>>)
        /\ netlog = <<>>

C1_Witness ==
    /\ entry = "calcPreVerificationGas" /\ chainId = 59142 /\ pc = "done"
    /\ overheads = NoOverheads /\ op = BaseOp
    /\ outcome.kind = "value" /\ outcome.val = <<90464>>

\* C2: the dispatch is total and exclusive: the branch taken is the one of the
\* set the chain id is in (default when in none); a surcharge calculator is
\* entered with staticFee = the default-model baseline; the default branch
\* returns the baseline unchanged with no network call.
C2_DispatchTotal ==
    entry = "calcPreVerificationGas" =>
        /\ branch \in {"double", "optimism", "arbitrum", "default"}
        /\ (branch = "double") <=> (chainId \in DoubleCostSet)
        /\ (branch = "optimism") <=> (chainId \in OptimismStackSet)
        /\ (branch = "arbitrum") <=> (chainId \in ArbitrumSet)
        /\ (branch = "default") <=>
             (chainId \notin DoubleCostSet \cup OptimismStackSet \cup ArbitrumSet)
        /\ (branch = "optimism") <=> (fn = "calcOptimismPreVerificationGas")
        /\ (branch = "arbitrum") <=> (fn = "calcArbitrumPreVerificationGas")
        /\ branch \in {"optimism", "arbitrum"} =>
             staticFee = calcDefaultPreVerificationGas(op, overheads)
        /\ branch = "default" =>
             /\ pc = "done" /\ netlog = <<>>
             /\ outcome = Returned(<<calcDefaultPreVerificationGas(op, overheads)>>)

C2_Witness ==
    /\ entry = "calcPreVerificationGas" /\ chainId = 42161 /\ branch = "arbitrum"
    /\ fn = "calcArbitrumPreVerificationGas" /\ pc = "done"
    /\ op = BaseOp /\ overheads = NoOverheads /\ staticFee = 45232

\* the Optimism run has received its price sample
OptimismPriced ==
    /\ fn = "calcOptimismPreVerificationGas" /\ pc = "done"
    /\ Len(netlog) = 3 /\ gasPrice.ok

\* C3 (as stated): for all non-negative F, A, B, C the Optimism path returns
\* staticFee + floor(F / min(A, B + C)).
C3_Original ==
    OptimismPriced =>
        /\ outcome.kind = "value"
        /\ outcome.val = <<staticFee + l1Fee.result \div
                             Min(gasPrice.maxFeePerGas,
                                 latestBlock.baseFeePerGas[1]
                                 + gasPrice.maxPriorityFeePerGas)>>

\* C3 (amended): when min(A, B + C) > 0 the Optimism path returns
\* staticFee + floor(F / min(A, B + C)); when min(A, B + C) = 0 it returns
\* nothing and fails with the division-by-zero range error.
C3_OptimismFormula ==
    OptimismPriced =>
        LET l2 == Min(gasPrice.maxFeePerGas,
                      latestBlock.baseFeePerGas[1] + gasPrice.maxPriorityFeePerGas)
        IN  IF l2 > 0
            THEN outcome.kind = "value"
                 /\ outcome.val = <<staticFee + l1Fee.result \div l2>>
            ELSE outcome.kind = "error" /\ outcome.val = <<>>
                 /\ outcome.err = "RangeError: Division by zero"

C3_Witness ==
    /\ OptimismPriced
    /\ gasPrice.maxFeePerGas = 2 /\ gasPrice.maxPriorityFeePerGas = 2
    /\ latestBlock.baseFeePerGas = <<1>> /\ l1Fee.result = 5
    /\ outcome.val = <<staticFee + 2>>

\* C4: on the Optimism path a block without base fee makes the call fail with
\* the dedicated error (not the block read's rejection, never a number), before
\* the L1-fee oracle call and the gas-price query are issued.
C4_MissingBaseFee ==
    (/\ fn = "calcOptimismPreVerificationGas" /\ pc # "getBlock"
     /\ latestBlock.ok /\ latestBlock.baseFeePerGas = <<>>) =>
        /\ pc = "done"
        /\ outcome.kind = "error" /\ outcome.val = <<>>
        /\ outcome.err = "RpcError: block does not have baseFeePerGas"
        /\ outcome.from = "none"
        /\ netlog = <<"getBlock">>
        /\ l1Fee = Absent /\ gasPrice = Absent

C4_Witness ==
    /\ entry = "calcPreVerificationGas" /\ fn = "calcOptimismPreVerificationGas"
    /\ chainId = 8453 /\ pc = "done"
    /\ latestBlock.ok /\ latestBlock.baseFeePerGas = <<>>
    /\ outcome.kind = "error"

\* C5: the Arbitrum path returns staticFee + gasEstimateForL1 whatever the
\* other two tuple elements are, and never reads a block or queries the price.
C5_ArbitrumFormula ==
    fn = "calcArbitrumPreVerificationGas" =>
        /\ netlog = <<"gasEstimateL1Component">>
        /\ latestBlock = Absent /\ gasPrice = Absent /\ l1Fee = Absent
        /\ (pc = "done" /\ arbResult.ok) =>
             outcome = Returned(<<staticFee + arbResult.result[1]>>)

C5_Witness ==
    /\ fn = "calcArbitrumPreVerificationGas" /\ pc = "done" /\ arbResult.ok
    /\ arbResult.result = <<5, 1, 0>> /\ staticFee = 1 /\ outcome.val = <<6>>

\* the limit deriver has finished without a rejected block read
LimitComputed ==
    /\ fn = "calcVerificationGasAndCallGasLimit" /\ pc = "done"
    /\ (netlog # <<>> => latestBlock.ok)

\* the effective gas price of the claim
ClaimedGasPrice ==
    IF op.maxPriorityFeePerGas = op.maxFeePerGas THEN op.maxFeePerGas
    ELSE Min(op.maxFeePerGas,
             op.maxPriorityFeePerGas
             + (IF latestBlock.baseFeePerGas = <<>> THEN 0
                ELSE latestBlock.baseFeePerGas[1]))

ClaimedCallGasLimit ==
    LET cgl == Max(sim.paid \div ClaimedGasPrice - sim.preOpGas + 71000, 9000)
    IN  IF chainId \in BaseFamilySet THEN (110 * cgl) \div 100 ELSE cgl

\* C6 (as stated): for all non-negative inputs the pair is returned with
\* verificationGasLimit = floor((preOpGas - preVerificationGas) * 3 / 2) and
\* callGasLimit = max(floor(paid / gasPrice) - preOpGas + 71000, 9000), raised
\* by 10% on the Base family.
C6_Original ==
    LimitComputed =>
        /\ outcome.kind = "value"
        /\ outcome.val[1] = ((sim.preOpGas - op.preVerificationGas) * 3) \div 2
        /\ outcome.val[2] = ClaimedCallGasLimit

\* C6 (amended): when gasPrice > 0 the pair is returned, verificationGasLimit
\* being (preOpGas - preVerificationGas) * 3 / 2 rounded toward zero (the floor
\* only when preOpGas >= preVerificationGas) and callGasLimit as stated, hence
\* at least 9000; when gasPrice = 0 nothing is returned and the call fails with
\* the division-by-zero range error.  A block is read only when the two fees
\* differ.
C6_LimitFormula ==
    /\ fn = "calcVerificationGasAndCallGasLimit" =>
         netlog = (IF op.maxPriorityFeePerGas = op.maxFeePerGas
                   THEN <<>> ELSE <<"getBlock">>)
    /\ LimitComputed =>
         LET d == (sim.preOpGas - op.preVerificationGas) * 3
         IN  IF ClaimedGasPrice > 0
             THEN /\ outcome.kind = "value"
                  /\ outcome.val[1] = (IF d >= 0 THEN d \div 2 ELSE -((-d) \div 2))
                  /\ outcome.val[2] = ClaimedCallGasLimit
                  /\ outcome.val[2] >= 9000
             ELSE /\ outcome.kind = "error" /\ outcome.val = <<>>
                  /\ outcome.err = "RangeError: Division by zero"

C6_Witness ==
    /\ LimitComputed /\ netlog = <<"getBlock">>
    /\ sim.preOpGas = 100000 /\ op.preVerificationGas = 40000 /\ sim.paid = 3
    /\ chainId = 8453 /\ outcome.val = <<90000, 9900>>

\* C7 (as stated): calcDefaultPreVerificationGas returns
\* round(calldataCost + fixed/bundleSize + perUserOp + perUserOpWord * ceil(len/32)),
\* calldataCost summing zeroByte per zero byte and nonZeroByte per other byte of
\* the packed worst-case encoding, the overrides merged over the defaults.
C7_Claimed ==
    (entry = "calcDefaultPreVerificationGas" /\ pc = "done") =>
        LET d == [fixed |-> 21000, perUserOp |-> 18300, perUserOpWord |-> 4,
                  zeroByte |-> 4, nonZeroByte |-> 16, bundleSize |-> 1,
                  sigSize |-> 65]
            ov == [k \in DOMAIN d |->
                     IF k \in DOMAIN overheads THEN overheads[k] ELSE d[k]]
            packed == packUserOp([op EXCEPT !.signature =
                                    IF @ = <<>> THEN Fill(ov.sigSize, 1) ELSE @])
            zeros == Cardinality({i \in 1..Len(packed) : packed[i] = 0})
            calldataCost == ov.zeroByte * zeros
                            + ov.nonZeroByte * (Len(packed) - zeros)
            lengthInWords == (Len(packed) + 31) \div 32
        IN  outcome = Returned(<<MathRound(
                ov.bundleSize * (calldataCost + ov.perUserOp
                                 + ov.perUserOpWord * lengthInWords) + ov.fixed,
                ov.bundleSize)>>)

\* C8 (as stated): the worst-case variant has nonce, accountGasLimits,
\* preVerificationGas, gasFees, paymasterAndData and signature made of 0xFF
\* bytes of the real field's length (32 for a word, n for an n-byte field), no
\* zero byte among them in the encoding; sender, initCode, callData untouched.
C8_Claimed ==
    (entry = "packedUserOperationToRandomDataUserOp" /\ pc = "done") =>
        LET r == outcome.val
        IN  /\ EncWord(r.nonce) = Fill(32, 255)
            /\ EncWord(r.accountGasLimits) = Fill(32, 255)
            /\ EncWord(r.preVerificationGas) = Fill(32, 255)
            /\ EncWord(r.gasFees) = Fill(32, 255)
            /\ r.paymasterAndData = Fill(Len(op.paymasterAndData), 255)
            /\ r.signature = Fill(Len(op.signature), 255)
            /\ r.sender = op.sender
            /\ r.initCode = op.initCode
            /\ r.callData = op.callData

KnownCauseKinds ==
    {"NonceTooLowError", "FeeCapTooLowError", "InsufficientFundsError",
     "IntrinsicGasTooLowError", "ContractFunctionRevertedError",
     "EstimateGasExecutionError"}

\* C9: the error normalizer never raises; it returns the cause when the outer
\* error is one of the two execution wrappers and the cause is one of the six
\* known kinds, and not-applicable (undefined) in every other case.
C9_Normalizer ==
    (entry = "parseViemError" /\ pc = "done") =>
        /\ outcome.kind = "value"
        /\ outcome.val =
             (IF /\ errIn.kind \in {"ContractFunctionExecutionError",
                                    "TransactionExecutionError"}
                 /\ errIn.cause \in KnownCauseKinds
              THEN errIn.cause ELSE "undefined")

C9_Witness ==
    /\ entry = "parseViemError" /\ pc = "done"
    /\ errIn = [kind |-> "TransactionExecutionError", cause |-> "NonceTooLowError"]
    /\ outcome.val = "NonceTooLowError"

\* the response a finished network call got
ResponseOf(call) ==
    CASE call = "getBlock" -> latestBlock
      [] call = "getL1Fee" -> l1Fee
      [] call = "getGasPrice" -> gasPrice
      [] call = "gasEstimateL1Component" -> arbResult

\* the calls a function issues, in order
CallOrder ==
    CASE fn = "calcOptimismPreVerificationGas" -> <<"getBlock", "getL1Fee", "getGasPrice">>
      [] fn = "calcArbitrumPreVerificationGas" -> <<"gasEstimateL1Component">>
      [] fn = "calcVerificationGasAndCallGasLimit" -> <<"getBlock">>
      [] OTHER -> <<>>

\* C10: the network calls of one estimation call are issued one after the
\* other in the fixed order, each at most once and never retried; a rejected
\* call is the last one issued and the estimation call fails with that
\* rejection, returning no gas figure.
C10_Sequential ==
    /\ Len(netlog) <= Len(CallOrder)
    /\ netlog = SubSeq(CallOrder, 1, Len(netlog))
    /\ pc \notin {"idle", "done"} =>
         /\ netlog # <<>> /\ pc = netlog[Len(netlog)]
         /\ outcome.kind = "pending"
    /\ \A i \in 1..Len(netlog) :
         (i < Len(netlog) \/ pc = "done") =>
            \/ ResponseOf(netlog[i]).ok
            \/ /\ i = Len(netlog) /\ pc = "done"
               /\ outcome.kind = "error" /\ outcome.val = <<>>
               /\ outcome.err = "Rejected" /\ outcome.from = netlog[i]

C10_Witness ==
    /\ entry = "calcPreVerificationGas" /\ fn = "calcOptimismPreVerificationGas"
    /\ pc = "done" /\ netlog = <<"getBlock", "getL1Fee", "getGasPrice">>
    /\ ~gasPrice.ok /\ outcome = Rejected("getGasPrice")

====
